---- MODULE Spec2Model ----
(***************************************************************************)
(* A model of python_tools/Email_tools/email_tools.py: the provider        *)
(* configuration (EmailConfig), the three helpers that talk SMTP and IMAP  *)
(* (_send_email_helper, _read_emails_helper,                               *)
(* _test_email_connection_helper) and the four exposed tools that wrap     *)
(* them.                                                                   *)
(*                                                                         *)
(* Python values are represented as follows.                               *)
(*   - A str whose characters the code inspects (lower(), split(), a       *)
(*     slice, int()) is a sequence of one-character strings.               *)
(*   - A str the code only passes on is Str(t): a one-element sequence     *)
(*     holding the text t as a single token.                               *)
(*   - None is a two-element sequence that is neither of the above.        *)
(*   - An f-string is the concatenation of its pieces, each a str.         *)
(*   - bytes are modelled as str: decode() of ASCII keeps every character. *)
(*   - A dict is a function from its keys; a raised exception is the name  *)
(*     of its class.                                                       *)
(* The SMTP and IMAP servers are the environment: every library call that  *)
(* touches the network nondeterministically completes or raises one of the *)
(* exception classes that call can raise.                                  *)
(***************************************************************************)
EXTENDS Integers, Sequences, FiniteSets, TLC

VARIABLES
    env,         \* os.environ as seen by os.getenv
    tool,        \* the exposed tool in progress: its name and arguments
    op,          \* the helper call in progress: its name and arguments
    pc,          \* position in the helper (or "idle", "returned", "done")
    config,      \* local: config = EmailConfig(provider)
    msg,         \* local: the headers set on the MIMEMultipart message
    recipients,  \* local: the recipient list of _send_email_helper
    smtp,        \* the SMTP session of this call: "none", "open", "closed"
    imap,        \* the IMAP session of this call: "none", "open", "closed"
    connects,    \* connection attempts (SMTP or IMAP constructor calls)
    net,         \* the network actions of this call, in order
    sent,        \* the messages handed to sendmail in this call
    email_ids,   \* local: the identifiers selected by _read_emails_helper
    idx,         \* local: how many of reversed(email_ids) the loop has done
    fetched,     \* the identifiers given to mail.fetch, in order
    emails,      \* local: the summaries collected so far
    fault,       \* the first step of this call that raised, and what
    result,      \* what the helper returned
    out,         \* what the tool returned (or raised)
    answer,      \* the identifiers the SEARCH response listed, oldest first
    unit         \* a pure function applied on its own: name, input, output

vars == <<env, tool, op, pc, config, msg, recipients, smtp, imap, connects,
          net, sent, email_ids, idx, fetched, emails, fault, result, out, answer, unit>>

---------------------------------------------------------------------------
(* Python values *)

None == <<"None", "Type">>

Str(t) == <<t>>

\* bool(v) of a str or None.
Truthy(v) == v # None /\ v # <<>>

Min(a, b) == IF a < b THEN a ELSE b

Max(a, b) == IF a > b THEN a ELSE b

Uppers == <<"A","B","C","D","E","F","G","H","I","J","K","L","M",
            "N","O","P","Q","R","S","T","U","V","W","X","Y","Z">>

Lowers == <<"a","b","c","d","e","f","g","h","i","j","k","l","m",
            "n","o","p","q","r","s","t","u","v","w","x","y","z">>

LowerChar(c) ==
    IF \E i \in 1..Len(Uppers) : Uppers[i] = c
    THEN Lowers[CHOOSE i \in 1..Len(Uppers) : Uppers[i] = c]
    ELSE c

\* str.lower()
Lower(s) == [i \in 1..Len(s) |-> LowerChar(s[i])]

Digits == <<"0","1","2","3","4","5","6","7","8","9">>

DigitValue(c) == (CHOOSE i \in 1..Len(Digits) : Digits[i] = c) - 1

IsNumeric(s) ==
    Len(s) > 0 /\ \A i \in 1..Len(s) : \E d \in 1..Len(Digits) : Digits[d] = s[i]

RECURSIVE Decimal(_)
Decimal(s) ==
    IF s = <<>> THEN 0
    ELSE 10 * Decimal(SubSeq(s, 1, Len(s) - 1)) + DigitValue(s[Len(s)])

\* int(s) of a str made of decimal digits, or of anything else without them
\* (the signs, blanks and underscores int() also accepts are not among the
\* inputs of this model).
PyInt(s) ==
    IF IsNumeric(s) THEN [ok |-> TRUE, value |-> Decimal(s)]
    ELSE [ok |-> FALSE, value |-> 0]

\* s.split(sep): the pieces between the separators, empty pieces kept.
RECURSIVE SplitFrom(_, _, _)
SplitFrom(s, sep, piece) ==
    IF s = <<>> THEN <<piece>>
    ELSE IF Head(s) = sep THEN <<piece>> \o SplitFrom(Tail(s), sep, <<>>)
    ELSE SplitFrom(Tail(s), sep, Append(piece, Head(s)))

Split(s, sep) == SplitFrom(s, sep, <<>>)

\* s.split(): the runs between blanks, empty pieces dropped.
RECURSIVE SplitBlanksFrom(_, _)
SplitBlanksFrom(s, piece) ==
    IF s = <<>> THEN (IF piece = <<>> THEN <<>> ELSE <<piece>>)
    ELSE IF Head(s) = " "
         THEN (IF piece = <<>> THEN <<>> ELSE <<piece>>) \o SplitBlanksFrom(Tail(s), <<>>)
         ELSE SplitBlanksFrom(Tail(s), Append(piece, Head(s)))

SplitBlanks(s) == SplitBlanksFrom(s, <<>>)

\* s[start:] for any integer start.
SliceFrom(s, start) ==
    LET n == Len(s)
        from == IF start < 0 THEN Max(n + start, 0) ELSE Min(start, n)
    IN SubSeq(s, from + 1, n)

\* s[:stop] for any integer stop.
SliceTo(s, stop) ==
    LET n == Len(s)
        to == IF stop < 0 THEN Max(n + stop, 0) ELSE Min(stop, n)
    IN SubSeq(s, 1, to)

\* reversed(s)
Reversed(s) == [i \in 1..Len(s) |-> s[Len(s) + 1 - i]]

---------------------------------------------------------------------------
(* Exceptions *)

NoExc == "none"

\* The classes each class derives from, itself first (smtplib, imaplib and
\* the builtins, as the except clauses of the helpers see them).
Mro(cls) ==
    CASE cls = "SMTPAuthenticationError" ->
            <<"SMTPAuthenticationError", "SMTPException", "OSError", "Exception">>
      [] cls = "SMTPException" -> <<"SMTPException", "OSError", "Exception">>
      [] cls = "OSError" -> <<"OSError", "Exception">>
      [] cls = "IMAP4.error" -> <<"IMAP4.error", "Exception">>
      [] OTHER -> <<cls, "Exception">>

IsInstance(exc, cls) == \E i \in 1..Len(Mro(exc)) : Mro(exc)[i] = cls

\* The except clause that takes exc: the first of clauses, in order, naming
\* a class of exc; 0 when none does and exc propagates.
Handler(exc, clauses) ==
    IF \E i \in 1..Len(clauses) : IsInstance(exc, clauses[i])
    THEN CHOOSE i \in 1..Len(clauses) :
            /\ IsInstance(exc, clauses[i])
            /\ \A j \in 1..(i - 1) : ~IsInstance(exc, clauses[j])
    ELSE 0

\* str(e): the diagnostic text the exception carries.
ExcText(exc) == Str(exc)

---------------------------------------------------------------------------
(* EmailConfig *)

SMTP_DEFAULT_PORT == 587

IMAP_DEFAULT_PORT == 993

\* os.getenv(name): the value, or None when the variable is not set.
Getenv(e, name) == e[name]

\* int(os.getenv(name, default)): the default is already an int.
EnvPort(e, name, default) ==
    IF Getenv(e, name) = None THEN [ok |-> TRUE, value |-> default]
    ELSE PyInt(Getenv(e, name))

gmail == <<"g","m","a","i","l">>

outlook == <<"o","u","t","l","o","o","k">>

yahoo == <<"y","a","h","o","o">>

custom == <<"c","u","s","t","o","m">>

\* EmailConfig.__init__: the object built, or the exception it raises. The
\* two dict literals are built whole, whatever the provider, so both int()
\* calls run on every construction.
EmailConfig(provider, e) ==
    LET smtp_port == EnvPort(e, "SMTP_PORT", SMTP_DEFAULT_PORT)
        imap_port == EnvPort(e, "IMAP_PORT", IMAP_DEFAULT_PORT)
    IN IF ~smtp_port.ok \/ ~imap_port.ok
       THEN [raised |-> "ValueError"]
       ELSE [raised |-> NoExc,
             provider |-> Lower(provider),
             email_address |-> Getenv(e, "EMAIL_ADDRESS"),
             email_password |-> Getenv(e, "EMAIL_PASSWORD"),
             smtp_configs |->
                 (gmail :> [server |-> Str("smtp.gmail.com"), port |-> 587]) @@
                 (outlook :> [server |-> Str("smtp-mail.outlook.com"), port |-> 587]) @@
                 (yahoo :> [server |-> Str("smtp.mail.yahoo.com"), port |-> 587]) @@
                 (custom :> [server |-> Getenv(e, "SMTP_SERVER"), port |-> smtp_port.value]),
             imap_configs |->
                 (gmail :> [server |-> Str("imap.gmail.com"), port |-> 993]) @@
                 (outlook :> [server |-> Str("outlook.office365.com"), port |-> 993]) @@
                 (yahoo :> [server |-> Str("imap.mail.yahoo.com"), port |-> 993]) @@
                 (custom :> [server |-> Getenv(e, "IMAP_SERVER"), port |-> imap_port.value])]

\* dict.get(key, default)
DictGet(d, key, default) == IF key \in DOMAIN d THEN d[key] ELSE default

\* get_smtp_config falling back to the custom entry instead of gmail's.
get_smtp_config_custom_fallback(c) ==
    DictGet(c.smtp_configs, c.provider, c.smtp_configs[custom])

get_smtp_config(c) == DictGet(c.smtp_configs, c.provider, c.smtp_configs[gmail])

get_imap_config(c) == DictGet(c.imap_configs, c.provider, c.imap_configs[gmail])

\* validate_credentials with "or" where the code has "and".
validate_credentials_either(c) == Truthy(c.email_address) \/ Truthy(c.email_password)

validate_credentials(c) == Truthy(c.email_address) /\ Truthy(c.email_password)

---------------------------------------------------------------------------
(* Results, messages and the state between calls *)

\* An f-string: its pieces, each a str, one after the other.
RECURSIVE F(_)
F(pieces) == IF pieces = <<>> THEN <<>> ELSE Head(pieces) \o F(Tail(pieces))

\* str(v) of a str or None
StrOf(v) == IF v = None THEN <<"N", "o", "n", "e">> ELSE v

\* t in s
Contains(s, t) ==
    \E i \in 0..(Len(s) - Len(t)) : SubSeq(s, i + 1, i + Len(t)) = t

\* What a function call ends in: a returned value, or an exception that
\* leaves the function.
Returned(v) == [raised |-> NoExc, value |-> v]

Raised(exc) == [raised |-> exc]

NoCall == [name |-> "none"]

NoValue == [set |-> FALSE]

NoFault == [step |-> "none", exc |-> NoExc]

\* datetime.now().isoformat() and datetime.now().strftime(...)
IsoTimestamp == Str("datetime.now().isoformat()")

LocalTimestamp == Str("datetime.now().strftime('%Y-%m-%d %H:%M:%S')")

\* The locals and the per-call records of a call that has not started.
Fresh ==
    /\ config = NoValue
    /\ msg = NoValue
    /\ recipients = <<>>
    /\ smtp = "none"
    /\ imap = "none"
    /\ connects = 0
    /\ net = <<>>
    /\ sent = <<>>
    /\ email_ids = <<>>
    /\ idx = 0
    /\ fetched = <<>>
    /\ emails = <<>>
    /\ fault = NoFault
    /\ result = NoValue
    /\ out = NoValue
    /\ answer = <<>>

FreshNext ==
    /\ config' = NoValue
    /\ msg' = NoValue
    /\ recipients' = <<>>
    /\ smtp' = "none"
    /\ imap' = "none"
    /\ connects' = 0
    /\ net' = <<>>
    /\ sent' = <<>>
    /\ email_ids' = <<>>
    /\ idx' = 0
    /\ fetched' = <<>>
    /\ emails' = <<>>
    /\ fault' = NoFault
    /\ result' = NoValue
    /\ out' = NoValue
    /\ answer' = <<>>

\* A step of a helper raised exc: the helper's except clauses, each the
\* class it catches and the value it returns, decide what the helper ends in.
Except(exc, clauses) ==
    LET i == Handler(exc, [k \in 1..Len(clauses) |-> clauses[k].catches])
    IN IF i = 0 THEN Raised(exc) ELSE Returned(clauses[i].returns)

NoteFault(step, exc) ==
    fault' = IF fault = NoFault THEN [step |-> step, exc |-> exc] ELSE fault

---------------------------------------------------------------------------
(* _send_email_helper *)

SendCredentialsMessage ==
    Str("Email credentials not configured. Check EMAIL_ADDRESS and EMAIL_PASSWORD environment variables.")

SendAuthMessage ==
    Str("Authentication failed. Check your email credentials or use app-specific password.")

\* The except clauses of _send_email_helper with the first two exchanged.
SendHelperClausesSwapped(exc) ==
    <<[catches |-> "SMTPException",
       returns |-> [success |-> FALSE,
                    message |-> F(<<Str("SMTP error: "), ExcText(exc)>>)]],
      [catches |-> "SMTPAuthenticationError",
       returns |-> [success |-> FALSE, message |-> SendAuthMessage]],
      [catches |-> "Exception",
       returns |-> [success |-> FALSE,
                    message |-> F(<<Str("Unexpected error: "), ExcText(exc)>>)]]>>

\* Lines 111-125: the except clauses of _send_email_helper, in order.
SendHelperClauses(exc) ==
    <<[catches |-> "SMTPAuthenticationError",
       returns |-> [success |-> FALSE, message |-> SendAuthMessage]],
      [catches |-> "SMTPException",
       returns |-> [success |-> FALSE,
                    message |-> F(<<Str("SMTP error: "), ExcText(exc)>>)]],
      [catches |-> "Exception",
       returns |-> [success |-> FALSE,
                    message |-> F(<<Str("Unexpected error: "), ExcText(exc)>>)]]>>

SendExcept(exc) == Except(exc, SendHelperClauses(exc))

\* The message composed with a Bcc header written as the Cc header is.
ComposeMessageWithBcc(c, a) ==
    [headers |->
        <<[name |-> "From", value |-> c.email_address],
          [name |-> "To", value |-> a.to_email],
          [name |-> "Subject", value |-> a.subject]>>
        \o (IF Truthy(a.cc_email)
            THEN <<[name |-> "Cc", value |-> a.cc_email]>> ELSE <<>>)
        \o (IF Truthy(a.bcc_email)
            THEN <<[name |-> "Bcc", value |-> a.bcc_email]>> ELSE <<>>),
     parts |-> <<[subtype |-> IF a.is_html THEN "html" ELSE "plain",
                  payload |-> a.body]>>]

\* The message as composed: the headers the code sets, in order, and the one
\* body part. (The MIME headers the library adds on its own are left out.)
ComposeMessage(c, a) ==
    [headers |->
        <<[name |-> "From", value |-> c.email_address],
          [name |-> "To", value |-> a.to_email],
          [name |-> "Subject", value |-> a.subject]>>
        \o (IF Truthy(a.cc_email)
            THEN <<[name |-> "Cc", value |-> a.cc_email]>> ELSE <<>>),
     parts |-> <<[subtype |-> IF a.is_html THEN "html" ELSE "plain",
                  payload |-> a.body]>>]

\* The recipient list handed to sendmail.
RecipientList(a) ==
    <<a.to_email>>
    \o (IF Truthy(a.cc_email) THEN Split(a.cc_email, ",") ELSE <<>>)
    \o (IF Truthy(a.bcc_email) THEN Split(a.bcc_email, ",") ELSE <<>>)

SendArgs(to_email, subject, body, cc_email, bcc_email, is_html, provider) ==
    [name |-> "_send_email_helper", to_email |-> to_email, subject |-> subject,
     body |-> body, cc_email |-> cc_email, bcc_email |-> bcc_email,
     is_html |-> is_html, provider |-> provider]

\* A helper ends: what it returns or raises is handed to its caller.
HelperEnds(r) ==
    /\ result' = r
    /\ pc' = "returned"

\* Lines 64-85: build the configuration, check the credentials, compose.
SendConfig ==
    /\ pc = "send:config"
    /\ LET c == EmailConfig(op.provider, env)
       IN IF c.raised # NoExc
          THEN /\ HelperEnds(SendExcept(c.raised))
               /\ NoteFault("config", c.raised)
               /\ UNCHANGED <<config, msg>>
          ELSE IF ~validate_credentials(c)
          THEN /\ HelperEnds(Returned([success |-> FALSE,
                                       message |-> SendCredentialsMessage]))
               /\ config' = c
               /\ UNCHANGED <<msg, fault>>
          ELSE /\ config' = c
               /\ msg' = ComposeMessage(c, op)
               /\ pc' = "send:connect"
               /\ UNCHANGED <<result, fault>>
    /\ UNCHANGED <<env, tool, op, recipients, smtp, imap, connects, net, sent,
                   email_ids, idx, fetched, emails, out, answer, unit>>

\* Line 89: smtplib.SMTP(server, port). The constructor connects only when
\* the host is truthy; with no host it builds an unconnected object.
SendConnect ==
    /\ pc = "send:connect"
    /\ LET sc == get_smtp_config(config)
       IN IF ~Truthy(sc.server)
          THEN /\ pc' = "send:starttls"
               /\ UNCHANGED <<smtp, connects, net, result, fault>>
          ELSE /\ connects' = connects + 1
               /\ net' = Append(net, <<"SMTP", sc.server, sc.port>>)
               /\ \/ /\ smtp' = "open"
                     /\ pc' = "send:starttls"
                     /\ UNCHANGED <<result, fault>>
                  \/ \E exc \in {"OSError", "SMTPException"} :
                        /\ HelperEnds(SendExcept(exc))
                        /\ NoteFault("connect", exc)
                        /\ UNCHANGED smtp
    /\ UNCHANGED <<env, tool, op, config, msg, recipients, imap, sent,
                   email_ids, idx, fetched, emails, out, answer, unit>>

\* Line 90: server.starttls(). On an unconnected object it raises
\* SMTPServerDisconnected, an SMTPException.
SendStarttls ==
    /\ pc = "send:starttls"
    /\ \/ /\ smtp = "open"
          /\ net' = Append(net, <<"starttls">>)
          /\ pc' = "send:login"
          /\ UNCHANGED <<result, fault>>
       \/ \E exc \in (IF smtp = "open" THEN {"OSError", "SMTPException"}
                      ELSE {"SMTPException"}) :
             /\ net' = IF smtp = "open" THEN Append(net, <<"starttls">>) ELSE net
             /\ HelperEnds(SendExcept(exc))
             /\ NoteFault("starttls", exc)
    /\ UNCHANGED <<env, tool, op, config, msg, recipients, smtp, imap, connects,
                   sent, email_ids, idx, fetched, emails, out, answer, unit>>

\* Lines 91-98: server.login(...), then the recipient list.
SendLogin ==
    /\ pc = "send:login"
    /\ net' = Append(net, <<"login", config.email_address>>)
    /\ \/ /\ recipients' = RecipientList(op)
          /\ pc' = "send:sendmail"
          /\ UNCHANGED <<result, fault>>
       \/ \E exc \in {"SMTPAuthenticationError", "SMTPException", "OSError"} :
             /\ HelperEnds(SendExcept(exc))
             /\ NoteFault("login", exc)
             /\ UNCHANGED recipients
    /\ UNCHANGED <<env, tool, op, config, msg, smtp, imap, connects, sent,
                   email_ids, idx, fetched, emails, out, answer, unit>>

\* The transmit step handing the message to the server a second time.
SendSendmailTwice ==
    /\ pc = "send:sendmail"
    /\ net' = Append(Append(net, <<"sendmail">>), <<"sendmail">>)
    /\ LET m == [from_addr |-> config.email_address,
                 to_addrs |-> recipients,
                 message |-> msg]
       IN \/ /\ sent' = Append(Append(sent, m), m)
             /\ pc' = "send:quit"
             /\ UNCHANGED <<result, fault>>
          \/ \E exc \in {"SMTPException", "OSError"} :
                /\ HelperEnds(SendExcept(exc))
                /\ NoteFault("sendmail", exc)
                /\ sent' = Append(sent, m)
    /\ UNCHANGED <<env, tool, op, config, msg, recipients, smtp, imap, connects,
                   email_ids, idx, fetched, emails, out, answer, unit>>

\* Lines 101-102: server.sendmail(from, recipients, msg.as_string()).
SendSendmail ==
    /\ pc = "send:sendmail"
    /\ net' = Append(net, <<"sendmail">>)
    /\ \/ /\ sent' = Append(sent, [from_addr |-> config.email_address,
                                   to_addrs |-> recipients,
                                   message |-> msg])
          /\ pc' = "send:quit"
          /\ UNCHANGED <<result, fault>>
       \/ \E exc \in {"SMTPException", "OSError"} :
             /\ HelperEnds(SendExcept(exc))
             /\ NoteFault("sendmail", exc)
             /\ UNCHANGED sent
    /\ UNCHANGED <<env, tool, op, config, msg, recipients, smtp, imap, connects,
                   email_ids, idx, fetched, emails, out, answer, unit>>

\* Lines 103-109: server.quit(), then the success result. quit() closes the
\* socket whether the QUIT command is answered or not; when it is not, it
\* raises SMTPServerDisconnected, an SMTPException.
SendQuit ==
    /\ pc = "send:quit"
    /\ net' = Append(net, <<"quit">>)
    /\ smtp' = "closed"
    /\ \/ /\ HelperEnds(Returned(
                [success |-> TRUE,
                 message |-> F(<<Str("Email sent successfully to "), op.to_email>>),
                 timestamp |-> IsoTimestamp]))
          /\ UNCHANGED fault
       \/ \E exc \in {"SMTPException"} :
             /\ HelperEnds(SendExcept(exc))
             /\ NoteFault("quit", exc)
    /\ UNCHANGED <<env, tool, op, config, msg, recipients, imap, connects, sent,
                   email_ids, idx, fetched, emails, out, answer, unit>>

---------------------------------------------------------------------------
(* The mailbox the IMAP server holds *)

MaxMsgs == 3

\* A body of n characters, the i-th of them determined by i.
Body(n) == [i \in 1..n |-> Lowers[((i - 1) % Len(Lowers)) + 1]]

\* bytes.decode('utf-8', errors='ignore'): undecodable bytes are dropped.
Decode(bytes) == SelectSeq(bytes, LAMBDA c : c # "\\xff")

\* The message stored under each identifier, as email.message_from_bytes
\* parses it: its headers (None when absent), whether it is multipart, its
\* parts (content type and payload) and, when not multipart, its payload.
Mailbox(id) ==
    CASE id = <<"1">> ->
            [Subject |-> Str("Quarterly report"), From |-> Str("alice@example.org"),
             Date |-> Str("Mon, 02 Nov 2026 10:00:00 +0000"), To |-> Str("me@example.org"),
             multipart |-> FALSE, parts |-> <<>>, payload |-> Body(250)]
      [] id = <<"2">> ->
            [Subject |-> None, From |-> None, Date |-> None, To |-> None,
             multipart |-> TRUE,
             parts |-> <<[content_type |-> "text/html", payload |-> Body(40)],
                         [content_type |-> "text/plain", payload |-> Body(150)],
                         [content_type |-> "text/plain", payload |-> Body(10)]>>,
             payload |-> <<>>]
      [] id = <<"3">> ->
            [Subject |-> Str("Re: lunch"), From |-> Str("bob@example.org"),
             Date |-> Str("Tue, 03 Nov 2026 09:30:00 +0000"), To |-> None,
             multipart |-> FALSE, parts |-> <<>>,
             payload |-> <<"\\xff">> \o Body(200)]
      [] OTHER ->
            [Subject |-> Str("Photos"), From |-> Str("carol@example.org"),
             Date |-> Str("Tue, 03 Nov 2026 11:00:00 +0000"), To |-> Str("me@example.org"),
             multipart |-> TRUE,
             parts |-> <<[content_type |-> "image/png", payload |-> Body(5)]>>,
             payload |-> <<>>]

\* The identifier of the i-th message, as the server writes it.
IdOf(i) == <<Digits[i + 1]>>

\* The data line of a SEARCH response listing ids: b"1 2 3".
RECURSIVE SearchData(_)
SearchData(ids) ==
    IF ids = <<>> THEN <<>>
    ELSE IF Len(ids) = 1 THEN ids[1]
    ELSE ids[1] \o <<" ">> \o SearchData(Tail(ids))

\* The ascending identifier lists a SEARCH can answer with: every message
\* of a mailbox of n messages for ALL, any of them for UNSEEN.
RECURSIVE Ascending(_)
Ascending(S) ==
    IF S = {} THEN <<>>
    ELSE LET m == CHOOSE x \in S : \A y \in S : x <= y
         IN <<IdOf(m)>> \o Ascending(S \ {m})

SearchAnswers(criteria) ==
    IF criteria = "ALL" THEN {Ascending(1..n) : n \in 0..MaxMsgs}
    ELSE {Ascending(S) : S \in SUBSET (1..MaxMsgs)}

---------------------------------------------------------------------------
(* _read_emails_helper *)

PREVIEW_LENGTH == 200

RECURSIVE ToDecimal(_)
\* str(n) of an int n >= 0
ToDecimal(n) ==
    IF n < 10 THEN <<Digits[n + 1]>>
    ELSE ToDecimal(n \div 10) \o <<Digits[(n % 10) + 1]>>

\* Lines 204-215: the except clauses of _read_emails_helper, in order.
ReadHelperClauses(exc) ==
    <<[catches |-> "IMAP4.error",
       returns |-> [success |-> FALSE,
                    message |-> F(<<Str("IMAP error: "), ExcText(exc)>>),
                    emails |-> <<>>]],
      [catches |-> "Exception",
       returns |-> [success |-> FALSE,
                    message |-> F(<<Str("Unexpected error: "), ExcText(exc)>>),
                    emails |-> <<>>]]>>

ReadExcept(exc) == Except(exc, ReadHelperClauses(exc))

ReadArgs(folder, limit, unread_only, provider) ==
    [name |-> "_read_emails_helper", folder |-> folder, limit |-> limit,
     unread_only |-> unread_only, provider |-> provider]

\* x or default
Or(x, default) == IF Truthy(x) THEN x ELSE default

\* Lines 183-190: the body of a parsed message. walk() visits the message
\* itself, then its parts; the first text/plain part ends the search.
ExtractBody(m) ==
    IF m.multipart
    THEN IF \E k \in 1..Len(m.parts) : m.parts[k].content_type = "text/plain"
         THEN Decode(m.parts[CHOOSE k \in 1..Len(m.parts) :
                        /\ m.parts[k].content_type = "text/plain"
                        /\ \A j \in 1..(k - 1) :
                              m.parts[j].content_type # "text/plain"].payload)
         ELSE <<>>
    ELSE Decode(m.payload)

\* The preview with ">=" where the code has ">".
BodyPreviewInclusive(body) ==
    IF Len(body) >= PREVIEW_LENGTH
    THEN SliceTo(body, PREVIEW_LENGTH) \o <<".", ".", ".">>
    ELSE body

\* Line 192: body[:200] + "..." if len(body) > 200 else body
BodyPreview(body) ==
    IF Len(body) > PREVIEW_LENGTH
    THEN SliceTo(body, PREVIEW_LENGTH) \o <<".", ".", ".">>
    ELSE body

\* Lines 174-192: the summary of one fetched message.
EmailInfo(email_id, m, c) ==
    [id |-> email_id,
     subject |-> Or(m.Subject, Str("No Subject")),
     from |-> Or(m.From, Str("Unknown Sender")),
     date |-> Or(m.Date, Str("Unknown Date")),
     to |-> Or(m.To, c.email_address),
     body_preview |-> BodyPreview(ExtractBody(m))]

\* Lines 162-163: the identifiers to fetch, from the data of the response.
SelectIds(data, limit) == SliceFrom(SplitBlanks(data), 0 - limit)

\* The loop visiting the identifiers without reversed().
FetchOrderForward(ids) == ids

\* Line 167: the order the loop visits them in.
FetchOrder(ids) == Reversed(ids)

\* Lines 134-141: build the configuration, check the credentials.
ReadConfig ==
    /\ pc = "read:config"
    /\ LET c == EmailConfig(op.provider, env)
       IN IF c.raised # NoExc
          THEN /\ HelperEnds(ReadExcept(c.raised))
               /\ NoteFault("config", c.raised)
               /\ UNCHANGED config
          ELSE IF ~validate_credentials(c)
          THEN /\ HelperEnds(Returned([success |-> FALSE,
                                       message |-> Str("Email credentials not configured."),
                                       emails |-> <<>>]))
               /\ config' = c
               /\ UNCHANGED fault
          ELSE /\ config' = c
               /\ pc' = "read:connect"
               /\ UNCHANGED <<result, fault>>
    /\ UNCHANGED <<env, tool, op, msg, recipients, smtp, imap, connects, net,
                   sent, email_ids, idx, fetched, emails, out, answer, unit>>

\* Line 145: imaplib.IMAP4_SSL(server, port)
ReadConnect ==
    /\ pc = "read:connect"
    /\ connects' = connects + 1
    /\ LET ic == get_imap_config(config)
       IN net' = Append(net, <<"IMAP4_SSL", ic.server, ic.port>>)
    /\ \/ /\ imap' = "open"
          /\ pc' = "read:login"
          /\ UNCHANGED <<result, fault>>
       \/ \E exc \in {"OSError", "IMAP4.error"} :
             /\ HelperEnds(ReadExcept(exc))
             /\ NoteFault("connect", exc)
             /\ UNCHANGED imap
    /\ UNCHANGED <<env, tool, op, config, msg, recipients, smtp, sent,
                   email_ids, idx, fetched, emails, out, answer, unit>>

\* Line 146: mail.login(...)
ReadLogin ==
    /\ pc = "read:login"
    /\ net' = Append(net, <<"login", config.email_address>>)
    /\ \/ /\ pc' = "read:select"
          /\ UNCHANGED <<result, fault>>
       \/ \E exc \in {"IMAP4.error", "OSError"} :
             /\ HelperEnds(ReadExcept(exc))
             /\ NoteFault("login", exc)
    /\ UNCHANGED <<env, tool, op, config, msg, recipients, smtp, imap, connects,
                   sent, email_ids, idx, fetched, emails, out, answer, unit>>

\* Line 149: mail.select(folder). Its answer is not looked at: after a NO
\* the session is left unselected, and the search that follows raises.
ReadSelect ==
    /\ pc = "read:select"
    /\ net' = Append(net, <<"select", op.folder>>)
    /\ \/ /\ pc' = "read:search"
          /\ UNCHANGED <<result, fault>>
       \/ /\ pc' = "read:search_unselected"
          /\ UNCHANGED <<result, fault>>
       \/ \E exc \in {"IMAP4.error", "OSError"} :
             /\ HelperEnds(ReadExcept(exc))
             /\ NoteFault("select", exc)
    /\ UNCHANGED <<env, tool, op, config, msg, recipients, smtp, imap, connects,
                   sent, email_ids, idx, fetched, emails, out, answer, unit>>

\* Lines 152-165: mail.search(None, criteria), the test of its result and
\* the choice of the identifiers.
ReadSearch ==
    /\ pc \in {"read:search", "read:search_unselected"}
    /\ LET criteria == IF op.unread_only THEN "UNSEEN" ELSE "ALL"
       IN /\ net' = Append(net, <<"search", criteria>>)
          /\ IF pc = "read:search_unselected"
             THEN /\ HelperEnds(ReadExcept("IMAP4.error"))
                  /\ NoteFault("search", "IMAP4.error")
                  /\ UNCHANGED <<email_ids, answer>>
             ELSE \/ \E ids \in SearchAnswers(criteria) :
                        /\ answer' = ids
                        /\ email_ids' = SelectIds(SearchData(ids), op.limit)
                        /\ pc' = "read:loop"
                        /\ UNCHANGED <<result, fault>>
                  \/ /\ HelperEnds(Returned([success |-> FALSE,
                                             message |-> Str("Failed to search emails"),
                                             emails |-> <<>>]))
                     /\ NoteFault("search", "NO")
                     /\ UNCHANGED <<email_ids, answer>>
                  \/ \E exc \in {"IMAP4.error", "OSError"} :
                        /\ HelperEnds(ReadExcept(exc))
                        /\ NoteFault("search", exc)
                        /\ UNCHANGED <<email_ids, answer>>
    /\ UNCHANGED <<env, tool, op, config, msg, recipients, smtp, imap, connects,
                   sent, idx, fetched, emails, out, unit>>

\* Lines 167-193: one turn of the loop: fetch the next identifier and, when
\* the fetch is OK, parse the message and append its summary. A fetch
\* answered OK with no message data ([None]) makes message_data[0][1]
\* raise TypeError.
ReadFetch ==
    /\ pc = "read:loop"
    /\ idx < Len(email_ids)
    /\ LET email_id == FetchOrder(email_ids)[idx + 1]
       IN /\ net' = Append(net, <<"fetch", email_id>>)
          /\ fetched' = Append(fetched, email_id)
          /\ \/ /\ emails' = Append(emails, EmailInfo(email_id, Mailbox(email_id), config))
                /\ idx' = idx + 1
                /\ UNCHANGED <<pc, result, fault>>
             \/ /\ idx' = idx + 1
                /\ UNCHANGED <<pc, result, fault, emails>>
             \/ \E exc \in {"TypeError", "IMAP4.error", "OSError"} :
                   /\ HelperEnds(ReadExcept(exc))
                   /\ NoteFault(IF exc = "TypeError" THEN "parse" ELSE "fetch", exc)
                   /\ UNCHANGED <<idx, emails>>
    /\ UNCHANGED <<env, tool, op, config, msg, recipients, smtp, imap, connects,
                   sent, email_ids, out, answer, unit>>

\* Lines 195-202: mail.logout(), then the success result. A logout whose
\* command fails raises before the socket is shut down.
ReadLogout ==
    /\ pc = "read:loop"
    /\ idx = Len(email_ids)
    /\ net' = Append(net, <<"logout">>)
    /\ \/ /\ imap' = "closed"
          /\ HelperEnds(Returned(
                [success |-> TRUE,
                 message |-> F(<<Str("Retrieved "), ToDecimal(Len(emails)),
                                 Str(" emails from "), op.folder>>),
                 count |-> Len(emails),
                 emails |-> emails]))
          /\ UNCHANGED fault
       \/ \E exc \in {"IMAP4.error"} :
             /\ HelperEnds(ReadExcept(exc))
             /\ NoteFault("logout", exc)
             /\ UNCHANGED imap
    /\ UNCHANGED <<env, tool, op, config, msg, recipients, smtp, connects, sent,
                   email_ids, idx, fetched, emails, out, answer, unit>>

---------------------------------------------------------------------------
(* _test_email_connection_helper *)

TestArgs(provider) == [name |-> "_test_email_connection_helper", provider |-> provider]

\* Lines 255-260: the except clause of _test_email_connection_helper.
TestHelperClauses(exc) ==
    <<[catches |-> "Exception",
       returns |-> [success |-> FALSE,
                    message |-> F(<<Str("Connection failed: "), ExcText(exc)>>),
                    provider |-> op.provider]]>>

TestExcept(exc) == Except(exc, TestHelperClauses(exc))

\* f"{config['server']}:{config['port']}"
Endpoint(c) == F(<<StrOf(c.server), <<":">>, ToDecimal(c.port)>>)

\* Lines 224-231: build the configuration, check the credentials.
TestConfig ==
    /\ pc = "test:config"
    /\ LET c == EmailConfig(op.provider, env)
       IN IF c.raised # NoExc
          THEN /\ HelperEnds(TestExcept(c.raised))
               /\ NoteFault("config", c.raised)
               /\ UNCHANGED config
          ELSE IF ~validate_credentials(c)
          THEN /\ HelperEnds(Returned([success |-> FALSE,
                                       message |-> Str("Email credentials not configured"),
                                       provider |-> op.provider]))
               /\ config' = c
               /\ UNCHANGED fault
          ELSE /\ config' = c
               /\ pc' = "test:smtp_connect"
               /\ UNCHANGED <<result, fault>>
    /\ UNCHANGED <<env, tool, op, msg, recipients, smtp, imap, connects, net,
                   sent, email_ids, idx, fetched, emails, out, answer, unit>>

\* Line 235: smtplib.SMTP(server, port)
TestSmtpConnect ==
    /\ pc = "test:smtp_connect"
    /\ LET sc == get_smtp_config(config)
       IN IF ~Truthy(sc.server)
          THEN /\ pc' = "test:starttls"
               /\ UNCHANGED <<smtp, connects, net, result, fault>>
          ELSE /\ connects' = connects + 1
               /\ net' = Append(net, <<"SMTP", sc.server, sc.port>>)
               /\ \/ /\ smtp' = "open"
                     /\ pc' = "test:starttls"
                     /\ UNCHANGED <<result, fault>>
                  \/ \E exc \in {"OSError", "SMTPException"} :
                        /\ HelperEnds(TestExcept(exc))
                        /\ NoteFault("smtp_connect", exc)
                        /\ UNCHANGED smtp
    /\ UNCHANGED <<env, tool, op, config, msg, recipients, imap, sent,
                   email_ids, idx, fetched, emails, out, answer, unit>>

\* Line 236: smtp_server.starttls()
TestStarttls ==
    /\ pc = "test:starttls"
    /\ \/ /\ smtp = "open"
          /\ net' = Append(net, <<"starttls">>)
          /\ pc' = "test:smtp_login"
          /\ UNCHANGED <<result, fault>>
       \/ \E exc \in (IF smtp = "open" THEN {"OSError", "SMTPException"}
                      ELSE {"SMTPException"}) :
             /\ net' = IF smtp = "open" THEN Append(net, <<"starttls">>) ELSE net
             /\ HelperEnds(TestExcept(exc))
             /\ NoteFault("starttls", exc)
    /\ UNCHANGED <<env, tool, op, config, msg, recipients, smtp, imap, connects,
                   sent, email_ids, idx, fetched, emails, out, answer, unit>>

\* Line 237: smtp_server.login(...)
TestSmtpLogin ==
    /\ pc = "test:smtp_login"
    /\ net' = Append(net, <<"login", config.email_address>>)
    /\ \/ /\ pc' = "test:smtp_quit"
          /\ UNCHANGED <<result, fault>>
       \/ \E exc \in {"SMTPAuthenticationError", "SMTPException", "OSError"} :
             /\ HelperEnds(TestExcept(exc))
             /\ NoteFault("smtp_login", exc)
    /\ UNCHANGED <<env, tool, op, config, msg, recipients, smtp, imap, connects,
                   sent, email_ids, idx, fetched, emails, out, answer, unit>>

\* The connection test going on to the IMAP leg without smtp_server.quit().
TestSmtpQuitSkipped ==
    /\ pc = "test:smtp_quit"
    /\ pc' = "test:imap_connect"
    /\ UNCHANGED <<env, tool, op, config, msg, recipients, smtp, imap, connects,
                   net, sent, email_ids, idx, fetched, emails, fault, result,
                   out, answer, unit>>

\* Line 238: smtp_server.quit()
TestSmtpQuit ==
    /\ pc = "test:smtp_quit"
    /\ net' = Append(net, <<"quit">>)
    /\ smtp' = "closed"
    /\ \/ /\ pc' = "test:imap_connect"
          /\ UNCHANGED <<result, fault>>
       \/ \E exc \in {"SMTPException"} :
             /\ HelperEnds(TestExcept(exc))
             /\ NoteFault("smtp_quit", exc)
    /\ UNCHANGED <<env, tool, op, config, msg, recipients, imap, connects, sent,
                   email_ids, idx, fetched, emails, out, answer, unit>>

\* Line 242: imaplib.IMAP4_SSL(server, port)
TestImapConnect ==
    /\ pc = "test:imap_connect"
    /\ connects' = connects + 1
    /\ LET ic == get_imap_config(config)
       IN net' = Append(net, <<"IMAP4_SSL", ic.server, ic.port>>)
    /\ \/ /\ imap' = "open"
          /\ pc' = "test:imap_login"
          /\ UNCHANGED <<result, fault>>
       \/ \E exc \in {"OSError", "IMAP4.error"} :
             /\ HelperEnds(TestExcept(exc))
             /\ NoteFault("imap_connect", exc)
             /\ UNCHANGED imap
    /\ UNCHANGED <<env, tool, op, config, msg, recipients, smtp, sent,
                   email_ids, idx, fetched, emails, out, answer, unit>>

\* Line 243: imap_server.login(...)
TestImapLogin ==
    /\ pc = "test:imap_login"
    /\ net' = Append(net, <<"login", config.email_address>>)
    /\ \/ /\ pc' = "test:imap_logout"
          /\ UNCHANGED <<result, fault>>
       \/ \E exc \in {"IMAP4.error", "OSError"} :
             /\ HelperEnds(TestExcept(exc))
             /\ NoteFault("imap_login", exc)
    /\ UNCHANGED <<env, tool, op, config, msg, recipients, smtp, imap, connects,
                   sent, email_ids, idx, fetched, emails, out, answer, unit>>

\* Lines 244-253: imap_server.logout(), then the success result.
TestImapLogout ==
    /\ pc = "test:imap_logout"
    /\ net' = Append(net, <<"logout">>)
    /\ \/ /\ imap' = "closed"
          /\ HelperEnds(Returned(
                [success |-> TRUE,
                 message |-> Str("Email connection successful"),
                 provider |-> op.provider,
                 email |-> config.email_address,
                 smtp_server |-> Endpoint(get_smtp_config(config)),
                 imap_server |-> Endpoint(get_imap_config(config))]))
          /\ UNCHANGED fault
       \/ \E exc \in {"IMAP4.error"} :
             /\ HelperEnds(TestExcept(exc))
             /\ NoteFault("imap_logout", exc)
             /\ UNCHANGED imap
    /\ UNCHANGED <<env, tool, op, config, msg, recipients, smtp, connects, sent,
                   email_ids, idx, fetched, emails, out, answer, unit>>

---------------------------------------------------------------------------
(* The exposed tools. The pictographs that open their texts are left out. *)

\* The tools' except clause naming a narrower class than Exception.
ToolClausesNarrow == <<"SMTPException">>

ToolClauses == <<"Exception">>

\* An argument that is an int, and one that is None where an int is meant.
IntArg(n) == [type |-> "int", value |-> n]

NoneArg == [type |-> "NoneType"]

\* The except clause of a tool: the text it returns for exc, or exc again
\* when no clause takes it.
ToolExcept(exc, lead) ==
    IF Handler(exc, ToolClauses) = 0 THEN Raised(exc)
    ELSE Returned(F(<<Str(lead), ExcText(exc)>>))

\* sep.join(list)
RECURSIVE Join(_, _)
Join(list, sep) ==
    IF list = <<>> THEN <<>>
    ELSE IF Len(list) = 1 THEN list[1]
    ELSE list[1] \o sep \o Join(Tail(list), sep)

\* The clamp without its lower bound.
ClampLimitNoFloor(limit) == Min(limit, 20)

\* Line 310: min(max(1, limit), 20)
ClampLimit(limit) == Min(Max(1, limit), 20)

\* Lines 286-292: send_email, given how _send_email_helper ended.
send_email(t, h) ==
    IF h.raised # NoExc THEN ToolExcept(h.raised, "Error sending email: ")
    ELSE IF h.value.success
    THEN Returned(F(<<Str("Email sent successfully to "), t.to_email,
                      Str("\nSubject: "), t.subject,
                      Str("\nSent at: "), h.value.timestamp>>))
    ELSE Returned(F(<<Str("Failed to send email: "), h.value.message>>))

\* Lines 309-310: the part of read_recent_emails before the helper call:
\* the arguments it hands over, or the exception the conversion raises.
ReadRecentArgs(t) ==
    IF t.unread_only = None THEN Raised("AttributeError")
    ELSE IF t.limit.type # "int" THEN Raised("TypeError")
    ELSE Returned([unread_filter |-> Lower(t.unread_only) = <<"t","r","u","e">>,
                   email_limit |-> ClampLimit(t.limit.value)])

\* Lines 320-327: the numbered entry of one summary.
EmailSummary(i, info) ==
    F(<<ToDecimal(i), Str(". From: "), info.from,
        Str("\n   Subject: "), info.subject,
        Str("\n   Date: "), info.date,
        Str("\n   Preview: "), info.body_preview, <<"\n">>>>)

\* Lines 317-338: read_recent_emails, given how the body before the helper
\* call or _read_emails_helper ended.
read_recent_emails(t, h) ==
    IF h.raised # NoExc THEN ToolExcept(h.raised, "Error reading emails: ")
    ELSE IF h.value.success
    THEN LET unread_filter == ReadRecentArgs(t).value.unread_filter
         IN IF h.value.count > 0
            THEN Returned(F(<<Str("Recent Emails"),
                              IF unread_filter THEN Str(" (unread only)") ELSE <<>>,
                              Str(":\n\n"),
                              Join([i \in 1..Len(h.value.emails) |->
                                        EmailSummary(i, h.value.emails[i])],
                                   <<"\n">>)>>))
            ELSE Returned(F(<<Str("No "),
                              IF unread_filter THEN Str("unread ") ELSE <<>>,
                              Str("emails found in inbox")>>))
    ELSE Returned(F(<<Str("Failed to read emails: "), h.value.message>>))

\* Lines 349-362: test_email_connection, given how the helper ended.
test_email_connection(t, h) ==
    IF h.raised # NoExc THEN ToolExcept(h.raised, "Connection test error: ")
    ELSE IF h.value.success
    THEN Returned(F(<<Str("Email Connection Successful!\n"),
                      Str("Email: "), h.value.email,
                      Str("\nProvider: "), h.value.provider,
                      Str("\nSMTP: "), h.value.smtp_server,
                      Str("\nIMAP: "), h.value.imap_server>>))
    ELSE Returned(F(<<Str("Email Connection Failed: "), h.value.message>>))

\* Lines 397-403: send_quick_notification, given how the helper ended.
send_quick_notification(t, h) ==
    IF h.raised # NoExc THEN ToolExcept(h.raised, "Error sending notification: ")
    ELSE IF h.value.success
    THEN Returned(F(<<Str("Notification sent successfully to "), t.recipient,
                      Str("\nMessage: "), t.message>>))
    ELSE Returned(F(<<Str("Failed to send notification: "), h.value.message>>))

\* Lines 378-395: the subject and the body of a notification.
NotificationSubject == F(<<Str("Notification - "), LocalTimestamp>>)

NotificationBody(message) ==
    F(<<Str("Notification from WatsonX Agent\n\nTime: "), LocalTimestamp,
        Str("\nMessage: "), message,
        Str("\n\n---\nThis is an automated notification sent by WatsonX Orchestrate Agent.")>>)

\* How the body of the tool in progress ended: with the exception its own
\* statements raised, or with what the helper returned or raised.
ToolBodyEnd == IF fault.step = "tool" THEN Raised(fault.exc) ELSE result

\* The tool in progress returns to the orchestration layer.
ToolReturn ==
    /\ pc = "returned"
    /\ tool # NoCall
    /\ out' = CASE tool.name = "send_email" -> send_email(tool, ToolBodyEnd)
                [] tool.name = "read_recent_emails" -> read_recent_emails(tool, ToolBodyEnd)
                [] tool.name = "test_email_connection" -> test_email_connection(tool, ToolBodyEnd)
                [] OTHER -> send_quick_notification(tool, ToolBodyEnd)
    /\ pc' = "done"
    /\ UNCHANGED <<env, tool, op, config, msg, recipients, smtp, imap, connects,
                   net, sent, email_ids, idx, fetched, emails, fault, result, answer, unit>>

\* The call is over; its locals and sessions go out of scope, and the
\* process waits for the next call.
Finish ==
    /\ \/ pc = "done"
       \/ pc = "returned" /\ tool = NoCall
    /\ pc' = "idle"
    /\ tool' = NoCall
    /\ op' = NoCall
    /\ FreshNext
    /\ UNCHANGED <<env, unit>>

---------------------------------------------------------------------------
(* The calls *)

\* A call starts: the frame variables other than tool, op, pc and fault.
Enter ==
    UNCHANGED <<env, config, msg, recipients, smtp, imap, connects, net, sent,
                email_ids, idx, fetched, emails, result, out, answer, unit>>

Call_send_email_helper(to_email, subject, body, cc_email, bcc_email, is_html, provider) ==
    /\ pc = "idle"
    /\ tool' = NoCall
    /\ op' = SendArgs(to_email, subject, body, cc_email, bcc_email, is_html, provider)
    /\ pc' = "send:config"
    /\ UNCHANGED fault
    /\ Enter

Call_read_emails_helper(folder, limit, unread_only, provider) ==
    /\ pc = "idle"
    /\ tool' = NoCall
    /\ op' = ReadArgs(folder, limit, unread_only, provider)
    /\ pc' = "read:config"
    /\ UNCHANGED fault
    /\ Enter

Call_test_email_connection_helper(provider) ==
    /\ pc = "idle"
    /\ tool' = NoCall
    /\ op' = TestArgs(provider)
    /\ pc' = "test:config"
    /\ UNCHANGED fault
    /\ Enter

\* Lines 278-284
Call_send_email(to_email, subject, body, cc_email) ==
    /\ pc = "idle"
    /\ tool' = [name |-> "send_email", to_email |-> to_email, subject |-> subject,
                body |-> body, cc_email |-> cc_email]
    /\ op' = SendArgs(to_email, subject, body, cc_email, None, FALSE, gmail)
    /\ pc' = "send:config"
    /\ UNCHANGED fault
    /\ Enter

\* Lines 307-315
Call_read_recent_emails(limit, unread_only) ==
    /\ pc = "idle"
    /\ tool' = [name |-> "read_recent_emails", limit |-> limit,
                unread_only |-> unread_only]
    /\ LET a == ReadRecentArgs(tool')
       IN IF a.raised # NoExc
          THEN /\ op' = NoCall
               /\ fault' = [step |-> "tool", exc |-> a.raised]
               /\ pc' = "returned"
          ELSE /\ op' = ReadArgs(Str("INBOX"), a.value.email_limit,
                                 a.value.unread_filter, gmail)
               /\ pc' = "read:config"
               /\ UNCHANGED fault
    /\ Enter

\* Lines 349-350
Call_test_email_connection ==
    /\ pc = "idle"
    /\ tool' = [name |-> "test_email_connection"]
    /\ op' = TestArgs(gmail)
    /\ pc' = "test:config"
    /\ UNCHANGED fault
    /\ Enter

\* Lines 377-395
Call_send_quick_notification(recipient, message) ==
    /\ pc = "idle"
    /\ tool' = [name |-> "send_quick_notification", recipient |-> recipient,
                message |-> message]
    /\ op' = SendArgs(recipient, NotificationSubject, NotificationBody(message),
                      None, None, FALSE, gmail)
    /\ pc' = "send:config"
    /\ UNCHANGED fault
    /\ Enter

---------------------------------------------------------------------------
(* The process: its environment, and the calls made of it *)

ADDRESS == Str("me@example.org")

PASSWORD == Str("app-password")

Envs ==
    [EMAIL_ADDRESS : {None, <<>>, ADDRESS},
     EMAIL_PASSWORD : {None, <<>>, PASSWORD},
     SMTP_SERVER : {None, Str("mail.example.org")},
     SMTP_PORT : {None, <<"4","6","5">>, <<"t","l","s">>},
     IMAP_SERVER : {None, Str("imap.example.org")},
     IMAP_PORT : {None, <<"1","4","3">>, <<"s","s","l">>}]

Providers ==
    {gmail, custom, <<"O","u","t","l","o","o","k">>, <<"h","o","t","m","a","i","l">>}

INBOX == Str("INBOX")

Init ==
    /\ env \in Envs
    /\ tool = NoCall
    /\ op = NoCall
    /\ pc = "idle"
    /\ Fresh
    /\ unit = NoValue

SendHelperCall ==
    \E cc \in {None, <<"b", ",", "c">>}, bcc \in {None, <<"d">>},
       is_html \in BOOLEAN, provider \in Providers :
        Call_send_email_helper(<<"a">>, Str("Hello"), Str("Body text"),
                               cc, bcc, is_html, provider)

ReadHelperCall ==
    \E limit \in {2, 5}, unread_only \in BOOLEAN, provider \in Providers :
        Call_read_emails_helper(INBOX, limit, unread_only, provider)

TestHelperCall ==
    \E provider \in Providers : Call_test_email_connection_helper(provider)

SendEmailCall ==
    \E cc \in {None, <<>>, <<"b">>} :
        Call_send_email(<<"a">>, Str("Hello"), Str("Body text"), cc)

ReadRecentCall ==
    \E limit \in {IntArg(0), IntArg(2), IntArg(25), NoneArg},
       unread_only \in {<<"t","r","u","e">>, <<"F","a","l","s","e">>, None} :
        Call_read_recent_emails(limit, unread_only)

NotificationCall ==
    Call_send_quick_notification(<<"a">>, Str("Backup finished"))

Next ==
    \/ SendHelperCall \/ ReadHelperCall \/ TestHelperCall
    \/ SendEmailCall \/ ReadRecentCall \/ Call_test_email_connection
    \/ NotificationCall
    \/ SendConfig \/ SendConnect \/ SendStarttls \/ SendLogin
    \/ SendSendmail \/ SendQuit
    \/ ReadConfig \/ ReadConnect \/ ReadLogin \/ ReadSelect \/ ReadSearch
    \/ ReadFetch \/ ReadLogout
    \/ TestConfig \/ TestSmtpConnect \/ TestStarttls \/ TestSmtpLogin
    \/ TestSmtpQuit \/ TestImapConnect \/ TestImapLogin \/ TestImapLogout
    \/ ToolReturn \/ Finish

Spec == Init /\ [][Next]_vars

---------------------------------------------------------------------------
(* Sending, with every short to, cc and bcc *)

MaxListLen == 2

\* Every str of at most n of the characters chars.
RECURSIVE ListStrings(_, _)
ListStrings(chars, n) ==
    IF n = 0 THEN {<<>>}
    ELSE LET shorter == ListStrings(chars, n - 1)
         IN shorter \cup {Append(t, c) : t \in shorter, c \in chars}

\* An environment with the credentials given and nothing else set.
BaseEnv(address, password) ==
    [EMAIL_ADDRESS |-> address, EMAIL_PASSWORD |-> password,
     SMTP_SERVER |-> None, SMTP_PORT |-> None,
     IMAP_SERVER |-> None, IMAP_PORT |-> None]

InitSend ==
    /\ env \in {BaseEnv(ADDRESS, PASSWORD), BaseEnv(<<"c">>, PASSWORD)}
    /\ tool = NoCall
    /\ op = NoCall
    /\ pc = "idle"
    /\ Fresh
    /\ unit = NoValue

SendAnyCall ==
    \E cc \in {None} \cup ListStrings({"b", ","}, MaxListLen),
       bcc \in {None} \cup ListStrings({"a", "c", ","}, MaxListLen) :
        Call_send_email_helper(<<"a">>, Str("Hello"), Str("Body text"),
                               cc, bcc, FALSE, gmail)

NextSend ==
    \/ SendAnyCall
    \/ SendConfig \/ SendConnect \/ SendStarttls \/ SendLogin
    \/ SendSendmail \/ SendQuit
    \/ Finish

SpecSend == InitSend /\ [][NextSend]_vars

---------------------------------------------------------------------------
(* Reading, with every limit around the clamp *)

LimitSpan == 3

InitRead ==
    /\ env = BaseEnv(ADDRESS, PASSWORD)
    /\ tool = NoCall
    /\ op = NoCall
    /\ pc = "idle"
    /\ Fresh
    /\ unit = NoValue

ReadRecentAnyCall ==
    \E limit \in (1 - LimitSpan)..(20 + LimitSpan),
       unread_only \in {<<"T","r","u","e">>, <<"f","a","l","s","e">>} :
        Call_read_recent_emails(IntArg(limit), unread_only)

ReadHelperAnyCall ==
    \E limit \in 0..MaxMsgs, unread_only \in BOOLEAN :
        Call_read_emails_helper(INBOX, limit, unread_only, gmail)

NextRead ==
    \/ ReadRecentAnyCall \/ ReadHelperAnyCall
    \/ ReadConfig \/ ReadConnect \/ ReadLogin \/ ReadSelect \/ ReadSearch
    \/ ReadFetch \/ ReadLogout
    \/ ToolReturn \/ Finish

SpecRead == InitRead /\ [][NextRead]_vars

---------------------------------------------------------------------------
(* The pure functions, applied on their own *)

MaxCalls == 2

MaxBodyLen == 210

\* Provider names as a caller may spell them, each with the profile the
\* spelling names ("unknown" when it names none).
ProviderSpellings ==
    {[name |-> gmail, is |-> "gmail"],
     [name |-> <<"G","m","a","i","l">>, is |-> "gmail"],
     [name |-> <<"G","M","A","I","L">>, is |-> "gmail"],
     [name |-> outlook, is |-> "outlook"],
     [name |-> <<"O","u","t","l","o","o","k">>, is |-> "outlook"],
     [name |-> yahoo, is |-> "yahoo"],
     [name |-> <<"Y","A","H","O","O">>, is |-> "yahoo"],
     [name |-> custom, is |-> "custom"],
     [name |-> <<"C","u","s","t","o","m">>, is |-> "custom"],
     [name |-> <<"h","o","t","m","a","i","l">>, is |-> "unknown"],
     [name |-> <<"g","m","a","i","l"," ">>, is |-> "unknown"],
     [name |-> <<"G","M","X">>, is |-> "unknown"],
     [name |-> <<>>, is |-> "unknown"]}

InitUnit ==
    /\ tool = NoCall
    /\ op = NoCall
    /\ pc = "idle"
    /\ Fresh
    /\ \/ /\ env \in Envs
          /\ \E p \in ProviderSpellings :
                unit = [fn |-> "EmailConfig", provider |-> p.name, is |-> p.is,
                        outputs |-> <<>>]
       \/ /\ env = BaseEnv(ADDRESS, PASSWORD)
          /\ \E n \in 0..MaxBodyLen :
                unit = [fn |-> "BodyPreview", body |-> Body(n), outputs |-> <<>>]

\* EmailConfig(provider), then get_smtp_config() and get_imap_config().
ResolveProvider ==
    /\ unit.fn = "EmailConfig"
    /\ Len(unit.outputs) < MaxCalls
    /\ LET c == EmailConfig(unit.provider, env)
       IN unit' = [unit EXCEPT !.outputs = Append(@,
                      IF c.raised # NoExc THEN Raised(c.raised)
                      ELSE Returned([smtp |-> get_smtp_config(c),
                                     imap |-> get_imap_config(c)]))]
    /\ UNCHANGED <<env, tool, op, pc, config, msg, recipients, smtp, imap,
                   connects, net, sent, email_ids, idx, fetched, emails, fault,
                   result, out, answer>>

\* The preview of a decoded body.
PreviewBody ==
    /\ unit.fn = "BodyPreview"
    /\ Len(unit.outputs) < 1
    /\ unit' = [unit EXCEPT !.outputs = Append(@, BodyPreview(unit.body))]
    /\ UNCHANGED <<env, tool, op, pc, config, msg, recipients, smtp, imap,
                   connects, net, sent, email_ids, idx, fetched, emails, fault,
                   result, out, answer>>

NextUnit == ResolveProvider \/ PreviewBody

SpecUnit == InitUnit /\ [][NextUnit]_vars

---------------------------------------------------------------------------
(* The claims *)

\* The texts with which a tool reports a failure.
FailureLeads ==
    {"Failed to send email: ", "Error sending email: ",
     "Failed to read emails: ", "Error reading emails: ",
     "Email Connection Failed: ", "Connection test error: ",
     "Failed to send notification: ", "Error sending notification: "}

IsFailureText(text) == text # <<>> /\ text[1] \in FailureLeads

CredentialsMissing ==
    ~Truthy(env.EMAIL_ADDRESS) \/ ~Truthy(env.EMAIL_PASSWORD)

HelperReturned == pc \in {"returned", "done"} /\ op # NoCall

\* C1: while EMAIL_ADDRESS or EMAIL_PASSWORD is missing or empty, no state of
\* any call has a connection attempt, a network action or a session, every
\* helper returns a failure result and every tool returns a failure text.
C1_NoNetworkWithoutCredentials ==
    CredentialsMissing =>
        /\ connects = 0
        /\ net = <<>>
        /\ sent = <<>>
        /\ smtp = "none"
        /\ imap = "none"
        /\ pc \notin {"send:connect", "read:connect", "test:smtp_connect"}
        /\ HelperReturned =>
              /\ result # NoValue
              /\ result.raised = NoExc
              /\ result.value.success = FALSE
        /\ pc = "done" =>
              /\ out.raised = NoExc
              /\ IsFailureText(out.value)

C1_Witness ==
    /\ env.EMAIL_ADDRESS = ADDRESS
    /\ env.EMAIL_PASSWORD = <<>>
    /\ pc = "done"
    /\ tool.name = "test_email_connection"
    /\ result.value.message = Str("Email credentials not configured")

\* C2: no return of _send_email_helper leaves an SMTP session open.
C2_SmtpSessionClosedOnReturn ==
    (HelperReturned /\ op.name = "_send_email_helper") => smtp # "open"

\* C3: no return of _read_emails_helper leaves an IMAP session open.
C3_ImapSessionClosedOnReturn ==
    (HelperReturned /\ op.name = "_read_emails_helper") => imap # "open"

\* The body of the tool in progress failed: a statement of it or of the
\* helper raised, a step of the helper was answered with a failure, or the
\* helper returned a failure result.
ToolBodyFailed ==
    \/ fault # NoFault
    \/ ToolBodyEnd.raised # NoExc
    \/ ToolBodyEnd.value.success = FALSE

\* C4: every call of a tool ends by returning a text, never by raising, and
\* when anything in it failed the text is a failure text.
C4_ToolsReturnText ==
    pc = "done" =>
        /\ out.raised = NoExc
        /\ ToolBodyFailed => IsFailureText(out.value)

C4_Witness ==
    /\ pc = "done"
    /\ tool.name = "read_recent_emails"
    /\ fault = [step |-> "tool", exc |-> "TypeError"]
    /\ out = Returned(<<"Error reading emails: ", "TypeError">>)

LoginRejected ==
    /\ op # NoCall
    /\ op.name = "_send_email_helper"
    /\ fault = [step |-> "login", exc |-> "SMTPAuthenticationError"]

\* C10: when the SMTP server rejects the login of a send, the helper returns
\* a failure result whose message is the authentication diagnostic, not the
\* "SMTP error" or "Unexpected error" one; nothing is transmitted; send_email
\* returns a failure text that contains the authentication diagnostic.
C10_AuthenticationDiagnostic ==
    LoginRejected =>
        /\ pc \in {"returned", "done"}
        /\ sent = <<>>
        /\ result.raised = NoExc
        /\ result.value.success = FALSE
        /\ result.value.message = SendAuthMessage
        /\ ~Contains(result.value.message, Str("SMTP error: "))
        /\ ~Contains(result.value.message, Str("Unexpected error: "))
        /\ (pc = "done" /\ tool.name = "send_email") =>
              /\ out.raised = NoExc
              /\ IsFailureText(out.value)
              /\ Contains(out.value, SendAuthMessage)

C10_Witness ==
    /\ LoginRejected
    /\ pc = "done"
    /\ tool.name = "send_email"
    /\ out = Returned(Str("Failed to send email: ") \o SendAuthMessage)

\* The SMTP and IMAP endpoints each provider name stands for, written out.
TableSmtp(is, e) ==
    CASE is = "outlook" -> [server |-> Str("smtp-mail.outlook.com"), port |-> 587]
      [] is = "yahoo" -> [server |-> Str("smtp.mail.yahoo.com"), port |-> 587]
      [] is = "custom" ->
            [server |-> e.SMTP_SERVER,
             port |-> IF e.SMTP_PORT = <<"4","6","5">> THEN 465 ELSE 587]
      [] OTHER -> [server |-> Str("smtp.gmail.com"), port |-> 587]

TableImap(is, e) ==
    CASE is = "outlook" -> [server |-> Str("outlook.office365.com"), port |-> 993]
      [] is = "yahoo" -> [server |-> Str("imap.mail.yahoo.com"), port |-> 993]
      [] is = "custom" ->
            [server |-> e.IMAP_SERVER,
             port |-> IF e.IMAP_PORT = <<"1","4","3">> THEN 143 ELSE 993]
      [] OTHER -> [server |-> Str("imap.gmail.com"), port |-> 993]

\* C5: for a provider name that, lower-cased, is none of gmail, outlook,
\* yahoo and custom, get_smtp_config and get_imap_config of the object built
\* return the gmail endpoints; for each of the four names they return that
\* name's own entry; they raise nothing (the only exception is the one the
\* constructor raises for a port setting that is not a number, before there
\* is an object to ask); repeated calls return the same.
C5_ProviderResolution ==
    unit.fn = "EmailConfig" =>
        \A i \in 1..Len(unit.outputs) :
            /\ unit.outputs[i] = unit.outputs[1]
            /\ unit.outputs[i].raised # NoExc =>
                  \/ env.SMTP_PORT = <<"t","l","s">>
                  \/ env.IMAP_PORT = <<"s","s","l">>
            /\ unit.outputs[i].raised = NoExc =>
                  /\ unit.outputs[i].value.smtp = TableSmtp(unit.is, env)
                  /\ unit.outputs[i].value.imap = TableImap(unit.is, env)
                  /\ unit.is = "unknown" =>
                        /\ unit.outputs[i].value.smtp =
                              [server |-> Str("smtp.gmail.com"), port |-> 587]
                        /\ unit.outputs[i].value.imap =
                              [server |-> Str("imap.gmail.com"), port |-> 993]

C5_Witness ==
    /\ unit.fn = "EmailConfig"
    /\ unit.provider = <<"h","o","t","m","a","i","l">>
    /\ env.SMTP_SERVER # None
    /\ env.SMTP_PORT = <<"4","6","5">>
    /\ Len(unit.outputs) = 2
    /\ unit.outputs[2] = Returned([smtp |-> [server |-> Str("smtp.gmail.com"), port |-> 587],
                                   imap |-> [server |-> Str("imap.gmail.com"), port |-> 993]])

FromReadRecent ==
    /\ tool # NoCall
    /\ tool.name = "read_recent_emails"
    /\ op # NoCall

\* C6: the limit read_recent_emails hands to _read_emails_helper lies in
\* 1..20: it is the limit given when that lies in 1..20, 1 for every limit
\* below 1 and 20 for every limit above 20.
C6_LimitClamped ==
    FromReadRecent =>
        /\ op.limit \in 1..20
        /\ (tool.limit.value \in 1..20) => op.limit = tool.limit.value
        /\ (tool.limit.value < 1) => op.limit = 1
        /\ (tool.limit.value > 20) => op.limit = 20

C6_Witness ==
    /\ FromReadRecent
    /\ tool.limit.value = 0
    /\ op.limit = 1
    /\ pc = "done"
    /\ Len(answer) = 3
    /\ result.value.success
    /\ result.value.count = 1

Range(seq) == {seq[i] : i \in 1..Len(seq)}

\* The entries of a comma-separated list that name an address.
Addresses(list) ==
    IF Truthy(list) THEN {x \in Range(Split(list, ",")) : x # <<>>} ELSE {}

HeaderNames(m) == [i \in 1..Len(m.headers) |-> m.headers[i].name]

Transmitted ==
    /\ op # NoCall
    /\ op.name = "_send_email_helper"
    /\ sent # <<>>

\* The recipient list and the header names C7 states.
C7_RecipientsAndHeaderNames ==
    /\ Len(sent) = 1
    /\ sent[1].to_addrs =
          <<op.to_email>>
          \o (IF Truthy(op.cc_email) THEN Split(op.cc_email, ",") ELSE <<>>)
          \o (IF Truthy(op.bcc_email) THEN Split(op.bcc_email, ",") ELSE <<>>)
    /\ HeaderNames(sent[1].message) =
          <<"From", "To", "Subject">>
          \o (IF Truthy(op.cc_email) THEN <<"Cc">> ELSE <<>>)
    /\ \A i \in 1..Len(sent[1].message.headers) :
          sent[1].message.headers[i].name # "Bcc"

ReadWithLimitInRange ==
    /\ op # NoCall
    /\ op.name = "_read_emails_helper"
    /\ op.limit \in 1..20

\* The place of an identifier in the SEARCH response.
PlaceIn(seq, x) == CHOOSE i \in 1..Len(seq) : seq[i] = x

\* C8: with a limit in 1..20, the identifiers selected are the last
\* min(limit, n) of the n the search listed; they are fetched newest first;
\* on success all of them were fetched, the summaries returned follow the
\* reverse of the search order, there are at most limit of them, and count
\* is their number.
C8_NewestFirst ==
    ReadWithLimitInRange =>
        LET n == Len(answer)
            k == IF op.limit < n THEN op.limit ELSE n
        IN /\ Len(email_ids) = k
           /\ \A i \in 1..k : email_ids[i] = answer[n - k + i]
           /\ Len(fetched) <= k
           /\ \A i \in 1..Len(fetched) : fetched[i] = answer[n + 1 - i]
           /\ Len(emails) <= Len(fetched)
           /\ \A i \in 1..Len(emails) :
                 /\ emails[i].id \in Range(fetched)
                 /\ \A j \in 1..(i - 1) :
                       PlaceIn(answer, emails[j].id) > PlaceIn(answer, emails[i].id)
           /\ (HelperReturned /\ result.value.success) =>
                 /\ Len(fetched) = k
                 /\ result.value.emails = emails
                 /\ Len(result.value.emails) <= op.limit
                 /\ result.value.count = Len(result.value.emails)
                 /\ Len(emails) = k =>
                       \A i \in 1..k : emails[i].id = answer[n + 1 - i]

C8_Witness ==
    /\ ReadWithLimitInRange
    /\ op.limit = 2
    /\ answer = <<<<"1">>, <<"2">>, <<"3">>>>
    /\ HelperReturned
    /\ result.value.success
    /\ result.value.count = 2
    /\ result.value.emails[1].id = <<"3">>
    /\ result.value.emails[2].id = <<"2">>

\* C9: the preview of a body longer than 200 characters is its first 200
\* characters followed by "..."; the preview of a body of 200 characters or
\* fewer, the empty body included, is the body itself.
C9_BodyPreview ==
    (unit.fn = "BodyPreview" /\ unit.outputs # <<>>) =>
        LET body == unit.body
            preview == unit.outputs[1]
        IN IF Len(body) > 200
           THEN /\ Len(preview) = 203
                /\ \A i \in 1..200 : preview[i] = body[i]
                /\ \A i \in 201..203 : preview[i] = "."
           ELSE preview = body

C9_Witness ==
    /\ unit.fn = "BodyPreview"
    /\ Len(unit.body) = 201
    /\ unit.outputs # <<>>
    /\ Len(unit.outputs[1]) = 203
    /\ unit.outputs[1][200] = unit.body[200]
    /\ unit.outputs[1][201] = "."

\* One message of the read in progress failed: its fetch raised, or the
\* fetch was answered OK and reading or parsing its data raised.
OneMessageFailed ==
    /\ op # NoCall
    /\ op.name = "_read_emails_helper"
    /\ fault.step \in {"fetch", "parse"}

\* C11: when the fetch or the parsing of one of several messages raises, the
\* read goes on: every selected identifier is still given to fetch and the
\* helper returns success with the summaries collected from the others.
C11_FailedMessageOnlyOmitted ==
    (OneMessageFailed /\ HelperReturned /\ Len(email_ids) > 1) =>
        /\ fetched = FetchOrder(email_ids)
        /\ result.raised = NoExc
        /\ result.value.success
        /\ result.value.emails = emails

SendInProgress == op # NoCall /\ op.name = "_send_email_helper"

\* The number of sendmail calls among the network actions of this call.
SendmailCalls == Len(SelectSeq(net, LAMBDA a : a[1] = "sendmail"))

\* The steps of _send_email_helper that come before the transmit step; the
\* credential check fails without raising, so it leaves no fault behind.
StepsBeforeTransmit == {"none", "config", "connect", "starttls", "login"}

\* C12: a call of _send_email_helper that returns success made exactly one
\* sendmail call and handed over exactly one message, and its result carries
\* the ISO timestamp; a call that fails at the credential check, at the
\* configuration, at connect, starttls or login made no sendmail call and
\* handed over nothing; and nothing is handed over before the transmit step.
C12_OneMessagePerSuccess ==
    SendInProgress =>
        /\ pc \in {"send:config", "send:connect", "send:starttls",
                    "send:login", "send:sendmail"} =>
              sent = <<>> /\ SendmailCalls = 0
        /\ (HelperReturned /\ result.raised = NoExc /\ result.value.success) =>
              /\ Len(sent) = 1
              /\ SendmailCalls = 1
              /\ DOMAIN result.value = {"success", "message", "timestamp"}
              /\ result.value.timestamp = IsoTimestamp
        /\ (HelperReturned /\ result.raised = NoExc /\ ~result.value.success
              /\ fault.step \in StepsBeforeTransmit) =>
              sent = <<>> /\ SendmailCalls = 0
        /\ HelperReturned => result.raised = NoExc

C12_Witness ==
    /\ SendInProgress
    /\ pc = "returned"
    /\ result.value.success
    /\ Len(sent) = 1
    /\ sent[1].to_addrs = <<<<"a">>, <<"b">>, <<"c">>, <<"d">>>>
    /\ result.value.timestamp = IsoTimestamp

\* The environment with the four endpoint settings absent and all else alike.
WithoutEndpointSettings(e) ==
    [e EXCEPT !.SMTP_SERVER = None, !.SMTP_PORT = None,
              !.IMAP_SERVER = None, !.IMAP_PORT = None]

\* A helper call for a provider other than custom has built its
\* configuration, or has ended trying to.
PastConfigNotCustom ==
    /\ op # NoCall
    /\ Lower(op.provider) # custom
    /\ pc \notin {"idle", "send:config", "read:config", "test:config"}

\* The network actions that name an endpoint.
EndpointsContacted ==
    SelectSeq(net, LAMBDA a : a[1] \in {"SMTP", "IMAP4_SSL"})

\* C13: for a provider other than custom, a call goes as the same call goes
\* with SMTP_SERVER, SMTP_PORT, IMAP_SERVER and IMAP_PORT absent: building
\* the configuration ends the call in neither or in both, the configuration
\* resolves to the same credentials and endpoints, and every endpoint
\* contacted is one the settings-free configuration resolves to.
C13_SettingsIgnoredUnlessCustom ==
    PastConfigNotCustom =>
        LET ref == EmailConfig(op.provider, WithoutEndpointSettings(env))
        IN /\ ref.raised = NoExc
           /\ fault.step # "config"
           /\ config # NoValue
           /\ config.email_address = ref.email_address
           /\ config.email_password = ref.email_password
           /\ get_smtp_config(config) = get_smtp_config(ref)
           /\ get_imap_config(config) = get_imap_config(ref)
           /\ \A i \in 1..Len(EndpointsContacted) :
                 LET a == EndpointsContacted[i]
                     r == IF a[1] = "SMTP" THEN get_smtp_config(ref)
                          ELSE get_imap_config(ref)
                 IN a[2] = r.server /\ a[3] = r.port

\* A connection test is in progress and both credentials are set.
TestWithCredentials ==
    /\ op # NoCall
    /\ op.name = "_test_email_connection_helper"
    /\ ~CredentialsMissing

\* The network actions of a complete connection test, in order.
TestSequence ==
    <<"SMTP", "starttls", "login", "quit", "IMAP4_SSL", "login", "logout">>

\* How many network actions have been made once the named step has acted.
StepIndex(step) ==
    CASE step = "config" -> 0
      [] step = "smtp_connect" -> 1
      [] step = "starttls" -> 2
      [] step = "smtp_login" -> 3
      [] step = "smtp_quit" -> 4
      [] step = "imap_connect" -> 5
      [] step = "imap_login" -> 6
      [] step = "imap_logout" -> 7

\* The table entry a provider name stands for.
ProfileOf(provider) ==
    LET p == Lower(provider)
    IN CASE p = outlook -> "outlook"
         [] p = yahoo -> "yahoo"
         [] p = custom -> "custom"
         [] OTHER -> "gmail"

\* "host:port" of an endpoint of the table, the port written out.
HostPort(e) ==
    StrOf(e.server) \o <<":">> \o
    (CASE e.port = 587 -> <<"5","8","7">>
       [] e.port = 993 -> <<"9","9","3">>
       [] e.port = 465 -> <<"4","6","5">>
       [] e.port = 143 -> <<"1","4","3">>)

\* C14: with both credentials set, the network actions of
\* _test_email_connection_helper are at every moment the first few of SMTP
\* open, starttls, login, quit, IMAP open, login, logout; nothing is sent,
\* selected, searched or fetched; the IMAP leg is entered only with the SMTP
\* session closed; a step that raises ends the call at that step with the
\* one failure result "Connection failed: <diagnostic>"; success is returned
\* only after all seven actions, with both sessions closed, and carries the
\* configured address and both "host:port" texts.
C14_ConnectionTestSequence ==
    TestWithCredentials =>
        /\ Len(net) <= Len(TestSequence)
        /\ \A i \in 1..Len(net) : net[i][1] = TestSequence[i]
        /\ sent = <<>>
        /\ fetched = <<>>
        /\ (Len(net) >= 5 \/ imap # "none"
              \/ pc \in {"test:imap_connect", "test:imap_login", "test:imap_logout"}) =>
              /\ smtp = "closed"
              /\ \A i \in 1..4 : net[i][1] = TestSequence[i]
        /\ HelperReturned =>
              /\ result.raised = NoExc
              /\ IF fault # NoFault
                 THEN /\ result.value =
                            [success |-> FALSE,
                             message |-> <<"Connection failed: ", fault.exc>>,
                             provider |-> op.provider]
                      /\ Len(net) <= StepIndex(fault.step)
                      /\ Len(net) >= StepIndex(fault.step) - 2
                      /\ fault.step \in {"smtp_connect", "smtp_login", "smtp_quit",
                                         "imap_connect", "imap_login", "imap_logout"}
                            => Len(net) = StepIndex(fault.step)
                 ELSE /\ Len(net) = 7
                      /\ smtp = "closed"
                      /\ imap = "closed"
                      /\ result.value =
                            [success |-> TRUE,
                             message |-> Str("Email connection successful"),
                             provider |-> op.provider,
                             email |-> env.EMAIL_ADDRESS,
                             smtp_server |->
                                 HostPort(TableSmtp(ProfileOf(op.provider), env)),
                             imap_server |->
                                 HostPort(TableImap(ProfileOf(op.provider), env))]

C14_Witness ==
    /\ TestWithCredentials
    /\ op.provider = custom
    /\ pc = "returned"
    /\ result.value.success
    /\ result.value.email = ADDRESS
    /\ result.value.smtp_server = <<"mail.example.org", ":", "4", "6", "5">>
    /\ result.value.imap_server = <<"imap.example.org", ":", "1", "4", "3">>
    /\ Len(net) = 7

\* C15: a returned call of _send_email_helper reports success exactly when
\* sendmail completed in it: success with a message handed over, failure
\* with none.
C15_ResultAgreesWithTransmission ==
    (SendInProgress /\ HelperReturned) =>
        /\ result.raised = NoExc
        /\ result.value.success <=> sent # <<>>

====
